---- MODULE Spec2Model ----
(***************************************************************************)
(* A model of the ChiptuneSAK intermediate representation: the quantization *)
(* engine of ctsBase.py, the ChirpSong / ChirpTrack transformations of      *)
(* ctsChirp.py and the measure populator of ctsExportUtil.py.               *)
(*                                                                          *)
(* Three specifications share the variables:                                *)
(*   SpecFn        the pure functions of ctsBase.py applied to inputs drawn *)
(*                 in the initial state;                                    *)
(*   Spec          a song under quantize / remove_polyphony /               *)
(*                 estimate_quantization;                                   *)
(*   SpecMeasures  the beat timeline and the measure populator.             *)
(***************************************************************************)
EXTENDS Integers, Sequences, FiniteSets, TLC

VARIABLES
    song,     \* the ChirpSong object (its fields, its tracks and their notes)
    lastOp,   \* history: the last method called on the song, with its arguments
    reps,     \* history: how many times in a row lastOp has been called (capped)
    acted,    \* history: some call of the current run of lastOp changed the song
    pre,      \* history: the song as it was when the last measure operation was called
    args,     \* the arguments handed to the pure functions of ctsBase.py
    ret,      \* what the last call returned or raised
    modulations   \* history: how many times modulate has been called

vars == <<song, lastOp, reps, acted, pre, args, ret, modulations>>

(***************************************************************************)
(* Bounds of the model.                                                     *)
(***************************************************************************)
MaxNotes == 2          \* notes of a song, over all its tracks
MaxTimes == 2          \* length of a time series handed to find_quantization
MaxT == 12             \* largest tick handed to quantize_fn
MaxModulations == 2    \* calls of modulate on one song

PPQ == 960             \* SongMetadata.ppq

(***************************************************************************)
(* Arithmetic helpers (Python builtins).                                    *)
(***************************************************************************)
Abs(x) == IF x < 0 THEN -x ELSE x

Min2(a, b) == IF a <= b THEN a ELSE b

SetMax(S) == CHOOSE x \in S : \A y \in S : y <= x

SetMin(S) == CHOOSE x \in S : \A y \in S : x <= y

SeqToSet(s) == {s[i] : i \in 1..Len(s)}

\* What a call returns: err is "none" or the exception raised.
Ok(v) == [err |-> "none", val |-> v]

Raise(e) == [err |-> e, val |-> 0]

(***************************************************************************)
(* ctsBase.py: the quantization engine.                                     *)
(***************************************************************************)
quantization_error(t_ticks, q_ticks) ==
    LET j == t_ticks \div q_ticks
    IN  Min2(Abs(t_ticks - q_ticks * j), Abs(t_ticks - q_ticks * (j + 1)))

objective_error(notes, test_quantization) ==
    SetMax({quantization_error(notes[i], test_quantization) : i \in 1..Len(notes)})

\* Mutant: a candidate that is merely no better counts as worse.
IsWorse_NotBetter(e, last_err) == e >= last_err

\* "If this is worse than the last one, the last one was the right one."
IsWorse(e, last_err) == e > last_err

\* Mutant: the second grid of a round is three quarters of the first.
TripletOf_Dotted(test_quantization) == (test_quantization * 3) \div 4

\* "Now test the quantization for triplets of the current note value."
TripletOf(test_quantization) == (test_quantization * 2) \div 3

\* One round of the while loop of find_quantization: the power-of-two grid of
\* note_value, then its triplet.
RECURSIVE find_quantization_loop(_, _, _, _, _)
find_quantization_loop(time_series, ppq, note_value, last_q, last_err) ==
    IF ~(note_value <= 128) THEN 1
    ELSE
      LET test_quantization == (ppq * 4) \div note_value
          e == objective_error(time_series, test_quantization)
      IN  IF e = 0 THEN test_quantization
          ELSE IF IsWorse(e, last_err) THEN last_q
          ELSE
            LET triplet_quantization == TripletOf(test_quantization)
                e3 == objective_error(time_series, triplet_quantization)
            IN  IF e3 = 0 THEN triplet_quantization
                ELSE IF IsWorse(e3, e) THEN test_quantization
                ELSE find_quantization_loop(time_series, ppq, note_value * 2,
                                            triplet_quantization, e3)

find_quantization(time_series, ppq) ==
    find_quantization_loop(time_series, ppq, 4, ppq, Len(time_series) * ppq)

\* Mutant: the loop stops as soon as the shortest note is half a grid unit.
RatioBelow_Half(min_length, current_q) == 2 * min_length < current_q

\* min_length / current_q < 0.9 and > 0.9, in integers.
RatioBelow(min_length, current_q) == 10 * min_length < 9 * current_q

RatioAbove(min_length, current_q) == 10 * min_length > 9 * current_q

\* The while loop of find_duration_quantization.
RECURSIVE find_duration_quantization_loop(_, _)
find_duration_quantization_loop(min_length, current_q) ==
    IF current_q = 0 THEN Raise("ZeroDivisionError")
    ELSE IF ~RatioBelow(min_length, current_q) THEN Ok(current_q)
    ELSE
      LET tmp_q == current_q
          triplet_q == (current_q * 3) \div 2
      IN  IF RatioAbove(min_length, triplet_q) THEN Ok(triplet_q)
          ELSE find_duration_quantization_loop(min_length, tmp_q \div 2)

find_duration_quantization(durations, qticks_note) ==
    LET min_length == SetMin(SeqToSet(durations))
    IN  IF ~(min_length > 0) THEN Raise("ChiptuneSAKQuantizationError")
        ELSE find_duration_quantization_loop(min_length, qticks_note)

\* Mutant: a tie goes to the next multiple.
KeepCurrent_Strict(t, current, next) == Abs(t - current) < Abs(next - t)

\* Mutant: the operands of the comparison are swapped.
KeepCurrent_Swapped(t, current, next) == Abs(t - next) <= Abs(current - t)

\* The comparison of quantize_fn that picks between the two neighbouring multiples.
KeepCurrent(t, current, next) == Abs(t - current) <= Abs(next - t)

quantize_fn(t, qticks) ==
    LET current == (t \div qticks) * qticks
        next == ((t \div qticks) + 1) * qticks
    IN  IF KeepCurrent(t, current, next) THEN current ELSE next

(***************************************************************************)
(* ctsBase.py: note names.  A Python string is the sequence of its          *)
(* characters.                                                              *)
(***************************************************************************)
\* ctsConstants.PITCHES
PITCHES ==
    << <<"C">>, <<"C", "#">>, <<"D">>, <<"D", "#">>, <<"E">>, <<"F">>,
       <<"F", "#">>, <<"G">>, <<"G", "#">>, <<"A">>, <<"A", "#">>, <<"B">> >>

DigitChars == <<"0", "1", "2", "3", "4", "5", "6", "7", "8", "9">>

\* The decimal digits of n >= 0.
RECURSIVE Digits(_)
Digits(n) ==
    IF n < 10 THEN <<DigitChars[n + 1]>>
    ELSE Digits(n \div 10) \o <<DigitChars[(n % 10) + 1]>>

\* "%d" % n
FormatD(n) == IF n < 0 THEN <<"-">> \o Digits(0 - n) ELSE Digits(n)

pitch_to_note_name(note_num, octave_offset) ==
    IF ~(0 <= note_num /\ note_num <= 127) THEN Raise("ChiptuneSAKValueError")
    ELSE LET octave == (note_num \div 12) + octave_offset
             pitch == note_num % 12
         IN  Ok(PITCHES[pitch + 1] \o FormatD(octave))

\* note_name_format: '^([A-G])(#|##|b|bb)?([0-7])$'
note_name_format_match(note_name) ==
    /\ Len(note_name) >= 2
    /\ note_name[1] \in {"A", "B", "C", "D", "E", "F", "G"}
    /\ SubSeq(note_name, 2, Len(note_name) - 1) \in
           {<<>>, <<"#">>, <<"#", "#">>, <<"b">>, <<"b", "b">>}
    /\ note_name[Len(note_name)] \in {"0", "1", "2", "3", "4", "5", "6", "7"}

\* list.index: the position (from 0) of the first item equal to x.
ListIndex(list, x) ==
    (CHOOSE i \in DOMAIN list : list[i] = x /\ \A j \in 1..(i - 1) : list[j] # x) - 1

\* str.count of a character.
StrCount(str, c) == Cardinality({i \in DOMAIN str : str[i] = c})

note_name_to_pitch(note_name, octave_offset) ==
    IF ~note_name_format_match(note_name) THEN Raise("ChiptuneSAKValueError")
    ELSE LET accidentals == SubSeq(note_name, 2, Len(note_name) - 1)
             octave == ListIndex(DigitChars, note_name[Len(note_name)]) - octave_offset
             note_num == ListIndex(PITCHES, <<note_name[1]>>) + 12 * (octave + 1)
         IN  Ok(note_num + StrCount(accidentals, "#") - StrCount(accidentals, "b"))

(***************************************************************************)
(* ctsChirp.py: notes, tracks and the song.  The named tuples are records;  *)
(* ChirpSong.stats (write-only counters) is left out.                       *)
(***************************************************************************)
\* Note.__init__(self, start, note, duration, velocity=100, tied=False)
Note(start, note, duration, velocity, tied) ==
    [type |-> "Note", start_time |-> start, note_num |-> note,
     duration |-> duration, velocity |-> velocity, tied |-> tied]

TimeSignature(start_time, num, denom) ==
    [type |-> "TimeSignature", start_time |-> start_time, num |-> num, denom |-> denom]

KeySignature(start_time, key) ==
    [type |-> "KeySignature", start_time |-> start_time, key |-> key]

Tempo(start_time, bpm) == [type |-> "Tempo", start_time |-> start_time, bpm |-> bpm]

OtherMidi(start_time, msg) == [type |-> "OtherMidi", start_time |-> start_time, msg |-> msg]

Program(start_time, program) ==
    [type |-> "Program", start_time |-> start_time, program |-> program]

Beat(start_time, measure, beat) ==
    [type |-> "Beat", start_time |-> start_time, measure |-> measure, beat |-> beat]

Rest(start_time, duration) ==
    [type |-> "Rest", start_time |-> start_time, duration |-> duration]

MeasureMarker(start_time, measure_number) ==
    [type |-> "MeasureMarker", start_time |-> start_time, measure_number |-> measure_number]

\* A mido message: its type and, for a program change, its program.
Msg(type, program) == [type |-> type, program |-> program]

\* ChirpTrack.__init__: the grids are inherited from the song.
ChirpTrack(chirp_song, notes, other) ==
    [notes |-> notes, other |-> other,
     qticks_notes |-> chirp_song.qticks_notes,
     qticks_durations |-> chirp_song.qticks_durations]

\* Mutant: a duration that rounds below the grid is left as it is.
ClampDuration_Off(duration, qticks_durations) == duration

\* "Never quantize a note duration to less than the minimum"
ClampDuration(duration, qticks_durations) ==
    IF duration < qticks_durations THEN qticks_durations ELSE duration

\* quantize_fn on the start tick of an event (a named tuple rebuilt in place).
EventQuantize(m, qticks_notes) == [m EXCEPT !.start_time = quantize_fn(@, qticks_notes)]

\* An omitted grid (None) is 0 here: "if qticks_notes:" treats both alike.
ChirpTrack_quantize(t, qticks_notes, qticks_durations) ==
    LET qn == IF qticks_notes # 0 THEN qticks_notes ELSE t.qticks_notes
        qd == IF qticks_durations # 0 THEN qticks_durations ELSE t.qticks_durations
    IN  [t EXCEPT
           !.qticks_notes = qn,
           !.qticks_durations = qd,
           !.notes = [i \in DOMAIN @ |->
                        [@[i] EXCEPT
                           !.start_time = quantize_fn(@, qn),
                           !.duration = ClampDuration(quantize_fn(@, qd), qd)]],
           !.other = [i \in DOMAIN @ |-> EventQuantize(@[i], qn)]]

\* Mutant: an omitted grid halves the stored one.
GridOrStored_Halved(qticks, stored) == IF qticks # 0 THEN qticks ELSE stored \div 2

\* "if qticks_notes: self.qticks_notes = qticks_notes": the grid the song
\* holds once the argument (0 when omitted) has been looked at.
GridOrStored(qticks, stored) == IF qticks # 0 THEN qticks ELSE stored

ChirpSong_quantize(s, qticks_notes, qticks_durations) ==
    LET qn == GridOrStored(qticks_notes, s.qticks_notes)
        qd == GridOrStored(qticks_durations, s.qticks_durations)
    IN  [s EXCEPT
           !.qticks_notes = qn,
           !.qticks_durations = qd,
           !.tracks = [i \in DOMAIN @ |-> ChirpTrack_quantize(@[i], qn, qd)],
           !.tempo_changes = [i \in DOMAIN @ |-> EventQuantize(@[i], qn)],
           !.time_signature_changes = [i \in DOMAIN @ |-> EventQuantize(@[i], qn)],
           !.key_signature_changes = [i \in DOMAIN @ |-> EventQuantize(@[i], qn)],
           !.other = [i \in DOMAIN @ |-> EventQuantize(@[i], qn)]]

\* ChirpTrack.modulate: the notes and the track's other events are rescaled.
ChirpTrack_modulate(t, num, denom) ==
    [t EXCEPT
       !.other = [i \in DOMAIN @ |->
                    OtherMidi((@[i].start_time * num) \div denom, @[i].msg)],
       !.notes = [i \in DOMAIN @ |->
                    [@[i] EXCEPT
                       !.start_time = (@ * num) \div denom,
                       !.duration = (@ * num) \div denom]]]

\* ChirpSong.modulate.  The last two statements read n and d, the loop
\* variables left by the time-signature loop: the numerator and denominator
\* of the last time signature as it was before the call, and unbound when the
\* song has no time signature (the rest of the song is modulated by then).
ChirpSong_modulate(s, num, denom) ==
    LET ts == s.time_signature_changes
        modulated ==
            [s EXCEPT
               !.time_signature_changes =
                   [i \in DOMAIN @ |->
                      TimeSignature(@[i].start_time, @[i].num * num, @[i].denom * denom)],
               !.tempo_changes =
                   [i \in DOMAIN @ |->
                      Tempo((@[i].start_time * num) \div denom, (@[i].bpm * num) \div denom)],
               !.other =
                   [i \in DOMAIN @ |->
                      OtherMidi((@[i].start_time * num) \div denom, @[i].msg)],
               !.tracks = [i \in DOMAIN @ |-> ChirpTrack_modulate(@[i], num, denom)]]
    IN  IF Len(ts) = 0 THEN [err |-> "UnboundLocalError", song |-> modulated]
        ELSE LET n == ts[Len(ts)].num
                 d == ts[Len(ts)].denom
             IN  [err |-> "none",
                  song |-> [modulated EXCEPT
                              !.qticks_notes = (@ * n) \div d,
                              !.qticks_durations = (@ * n) \div d]]

\* Python's order on tuples of integers of the same length.
KeyLess(a, b) ==
    \E i \in 1..Len(a) : a[i] < b[i] /\ \A j \in 1..(i - 1) : a[j] = b[j]

\* Python's stable sort, on a sequence of <<key, item>> pairs.
RECURSIVE InsertByKey(_, _)
InsertByKey(sorted, p) ==
    IF sorted = <<>> THEN <<p>>
    ELSE IF KeyLess(p[1], Head(sorted)[1]) THEN <<p>> \o sorted
    ELSE <<Head(sorted)>> \o InsertByKey(Tail(sorted), p)

RECURSIVE SortPairs(_)
SortPairs(ps) ==
    IF ps = <<>> THEN <<>>
    ELSE InsertByKey(SortPairs(SubSeq(ps, 1, Len(ps) - 1)), ps[Len(ps)])

\* Mutant: an overlapping note is not shortened.
Truncate_Off(last, n) == last

\* The overlap branch of remove_polyphony: last ends where n starts.
Truncate(last, n) ==
    IF n.start_time < last.start_time + last.duration
    THEN [last EXCEPT !.duration = n.start_time - last.start_time]
    ELSE last

\* The for loop of ChirpTrack.remove_polyphony over self.notes[1:].
RECURSIVE remove_polyphony_loop(_, _, _)
remove_polyphony_loop(rest, last, ret_notes) ==
    IF rest = <<>> THEN Append(ret_notes, last)
    ELSE
      LET n == Head(rest)
      IN  IF n.start_time = last.start_time
          THEN remove_polyphony_loop(Tail(rest), last, ret_notes)
          ELSE remove_polyphony_loop(Tail(rest), n, Append(ret_notes, Truncate(last, n)))

\* ChirpTrack.remove_polyphony on a track that has notes (self.notes[0] exists).
ChirpTrack_remove_polyphony(t) ==
    LET ret_notes == remove_polyphony_loop(Tail(t.notes), Head(t.notes), <<>>)
        keyed == [i \in DOMAIN ret_notes |->
                    <<(<<ret_notes[i].start_time, 0 - ret_notes[i].note_num>>), ret_notes[i]>>]
        sorted == SortPairs(keyed)
    IN  [t EXCEPT !.notes = [i \in DOMAIN sorted |-> sorted[i][2]]]

\* ChirpSong.remove_polyphony from track i on: a track without notes raises
\* IndexError (self.notes[0]) and leaves the tracks before it reduced.
RECURSIVE ChirpSong_remove_polyphony_from(_, _)
ChirpSong_remove_polyphony_from(s, i) ==
    IF i > Len(s.tracks) THEN [song |-> s, err |-> "none"]
    ELSE IF s.tracks[i].notes = <<>> THEN [song |-> s, err |-> "IndexError"]
    ELSE ChirpSong_remove_polyphony_from(
             [s EXCEPT !.tracks[i] = ChirpTrack_remove_polyphony(@)], i + 1)

ChirpSong_remove_polyphony(s) == ChirpSong_remove_polyphony_from(s, 1)

ChirpTrack_is_polyphonic(t) ==
    \E i \in 1..(Len(t.notes) - 1) :
        t.notes[i + 1].start_time - t.notes[i].start_time < t.notes[i].duration

ChirpTrack_is_quantized(t) ==
    \A i \in 1..Len(t.notes) :
        /\ t.notes[i].start_time % t.qticks_notes = 0
        /\ t.notes[i].duration % t.qticks_durations = 0

ChirpSong_is_polyphonic(s) ==
    \E i \in 1..Len(s.tracks) : ChirpTrack_is_polyphonic(s.tracks[i])

ChirpSong_is_quantized(s) ==
    \A i \in 1..Len(s.tracks) : ChirpTrack_is_quantized(s.tracks[i])

\* A Python value with its run-time type, for a call whose arguments are
\* handed over in the wrong positions.
PyInt(v) == [type |-> "int", v |-> v]

PyList(v) == [type |-> "list", v |-> v]

\* find_quantization(time_series, ppq) as Python runs it on positional
\* arguments: its first statement takes len(time_series).
Call_find_quantization(time_series, ppq) ==
    IF time_series.type # "list" THEN Raise("TypeError")
    ELSE Ok(find_quantization(time_series.v, ppq.v))

RECURSIVE AllNotes(_, _)
AllNotes(tracks, i) ==
    IF i > Len(tracks) THEN <<>> ELSE tracks[i].notes \o AllNotes(tracks, i + 1)

\* ChirpSong.estimate_quantization: find_quantization is called as
\* find_quantization(self.metadata.ppq, tmp_notes), and
\* find_duration_quantization with three arguments for its two parameters.
ChirpSong_estimate_quantization(s) ==
    LET notes == AllNotes(s.tracks, 1)
        tmp_notes == [i \in DOMAIN notes |-> notes[i].start_time]
        r == Call_find_quantization(PyInt(s.ppq), PyList(tmp_notes))
    IN  IF r.err # "none"
        THEN [song |-> s, err |-> r.err, val |-> <<0, 0>>]
        ELSE [song |-> [s EXCEPT !.qticks_notes = r.val],
              err |-> "TypeError", val |-> <<0, 0>>]

(***************************************************************************)
(* ctsChirp.py: the beat and measure timeline.                              *)
(***************************************************************************)
\* ChirpSong.end_time: max() of no notes raises ValueError.
ChirpSong_end_time(s) ==
    LET notes == AllNotes(s.tracks, 1)
    IN  IF notes = <<>> THEN Raise("ValueError")
        ELSE Ok(SetMax({notes[i].start_time + notes[i].duration : i \in DOMAIN notes}))

\* sorted(self.time_signature_changes): named tuples sort as tuples.
SortedTimeSignatures(s) ==
    LET ts == s.time_signature_changes
        sorted == SortPairs([i \in DOMAIN ts |->
                               <<(<<ts[i].start_time, ts[i].num, ts[i].denom>>), ts[i]>>])
    IN  [i \in DOMAIN sorted |-> sorted[i][2]]

\* Mutant: the last loop stops one beat early.
BeatWithinSong_Strict(t, max_time) == t < max_time

\* "while t <= max_time"
BeatWithinSong(t, max_time) == t <= max_time

\* One of the two while loops of measures_and_beats: st is (measures, t, m, b),
\* the loop runs while t < limit (strict) or while BeatWithinSong(t, limit).
\* A beat of zero ticks never leaves the loop.
RECURSIVE beat_loop(_, _, _, _, _)
beat_loop(st, last, ppq, limit, strict) ==
    IF ~(IF strict THEN st.t < limit ELSE BeatWithinSong(st.t, limit)) THEN st
    ELSE IF (ppq * 4) \div last.denom = 0 THEN [st EXCEPT !.diverges = TRUE]
    ELSE
      LET b == st.b + 1
      IN  beat_loop([measures |-> Append(st.measures, Beat(st.t, st.m, st.b)),
                     t |-> st.t + (ppq * 4) \div last.denom,
                     m |-> IF b > last.num THEN st.m + 1 ELSE st.m,
                     b |-> IF b > last.num THEN 1 ELSE b,
                     diverges |-> FALSE],
                    last, ppq, limit, strict)

\* "for s in time_signature_changes": the beats before each change, from change i on.
RECURSIVE signature_loop(_, _, _, _, _)
signature_loop(st, last, changes, i, ppq) ==
    IF i > Len(changes) \/ st.diverges THEN [st |-> st, last |-> last]
    ELSE signature_loop(beat_loop(st, last, ppq, changes[i].start_time, TRUE),
                        changes[i], changes, i + 1, ppq)

\* Mutant: only an empty list is refused.
NoStartingTimeSignature_EmptyOnly(changes) == Len(changes) = 0

\* "if len(time_signature_changes) == 0 or time_signature_changes[0].start_time != 0"
NoStartingTimeSignature(changes) ==
    Len(changes) = 0 \/ changes[1].start_time # 0

ChirpSong_measures_and_beats(s) ==
    LET max_time == ChirpSong_end_time(s)
        time_signature_changes == SortedTimeSignatures(s)
    IN  IF max_time.err # "none" THEN max_time
        ELSE IF NoStartingTimeSignature(time_signature_changes)
        THEN Raise("ChiptuneSAKValueError")
        ELSE
          LET start == [measures |-> <<>>, t |-> 0, m |-> 1, b |-> 1, diverges |-> FALSE]
              r == signature_loop(start, time_signature_changes[1],
                                  time_signature_changes, 1, s.ppq)
              final == IF r.st.diverges THEN r.st
                       ELSE beat_loop(r.st, r.last, s.ppq, max_time.val, FALSE)
          IN  IF final.diverges THEN Raise("NonTermination") ELSE Ok(final.measures)

ChirpSong_measure_starts(s) ==
    LET r == ChirpSong_measures_and_beats(s)
    IN  IF r.err # "none" THEN r
        ELSE LET firsts == SelectSeq(r.val, LAMBDA m : m.beat = 1)
             IN  Ok([i \in DOMAIN firsts |-> firsts[i].start_time])

\* Mutant: the insertion point before the entries equal to x.
bisect_right_Left(a, x) == Cardinality({i \in DOMAIN a : a[i] < x})

\* bisect.bisect_right(a, x) on an ascending list: the number of entries <= x.
bisect_right(a, x) == Cardinality({i \in DOMAIN a : a[i] <= x})

\* ChirpSong.get_measure_beat; measure_beats[pos - 1] with pos = 0 is Python's
\* measure_beats[-1], the last entry.
ChirpSong_get_measure_beat(s, time_in_ticks) ==
    LET r == ChirpSong_measures_and_beats(s)
    IN  IF r.err # "none" THEN r
        ELSE LET measure_beats == r.val
                 tmp == [i \in DOMAIN measure_beats |-> measure_beats[i].start_time]
                 pos == bisect_right(tmp, time_in_ticks)
             IN  IF measure_beats = <<>> THEN Raise("IndexError")
                 ELSE IF pos = 0 THEN Ok(measure_beats[Len(measure_beats)])
                 ELSE Ok(measure_beats[pos])

\* ChirpSong.get_time_signature / get_key_signature on the list changes:
\* changes[itime - 1] with itime = 0 is Python's changes[-1], the last entry.
SignatureAt(changes, time_in_ticks) ==
    IF Len(changes) = 0 \/ changes[1].start_time # 0
    THEN Raise("ChiptuneSAKValueError")
    ELSE LET itime == SetMin({i \in 0..Len(changes) :
                                 \/ i = Len(changes)
                                 \/ ~(changes[i + 1].start_time < time_in_ticks)})
         IN  IF itime = 0 THEN Ok(changes[Len(changes)]) ELSE Ok(changes[itime])

ChirpSong_get_time_signature(s, time_in_ticks) ==
    SignatureAt(s.time_signature_changes, time_in_ticks)

ChirpSong_get_key_signature(s, time_in_ticks) ==
    SignatureAt(s.key_signature_changes, time_in_ticks)

(***************************************************************************)
(* ctsExportUtil.py: the measure populator.                                 *)
(***************************************************************************)
\* Mutant: the priority of the kind comes before the time.
sort_order_KindFirst(c) ==
    <<CASE c.type = "Note" -> 10
        [] c.type = "Rest" -> 10
        [] c.type = "MeasureMarker" -> 0
        [] c.type = "TimeSignature" -> 1
        [] c.type = "KeySignature" -> 2
        [] c.type = "Tempo" -> 3
        [] c.type = "Program" -> 4
        [] OTHER -> 5,
      c.start_time>>

sort_order(c) ==
    <<c.start_time,
      CASE c.type = "Note" -> 10
        [] c.type = "Rest" -> 10
        [] c.type = "MeasureMarker" -> 0
        [] c.type = "TimeSignature" -> 1
        [] c.type = "KeySignature" -> 2
        [] c.type = "Tempo" -> 3
        [] c.type = "Program" -> 4
        [] OTHER -> 5>>

\* sorted(current_measure, key=sort_order)
SortMeasure(current_measure) ==
    LET sorted == SortPairs([i \in DOMAIN current_measure |->
                               <<sort_order(current_measure[i]), current_measure[i]>>])
    IN  [i \in DOMAIN sorted |-> sorted[i][2]]

\* The events of seq that fall in [start, end).
InWindow(seq, start, end) ==
    SelectSeq(seq, LAMBDA m : start <= m.start_time /\ m.start_time < end)

\* "if carry:" - the note carried over from the previous measure; carry is
\* <<>> (None) or <<note>>.
CarryPhase(carry, start, end, current_measure) ==
    IF carry = <<>>
    THEN [err |-> "none", current_measure |-> current_measure, carry |-> <<>>,
          last_note_end |-> start]
    ELSE
      LET c == [carry[1] EXCEPT !.start_time = start]
          carry_end == start + c.duration
      IN  IF c.duration <= 0
          THEN [err |-> "ChiptuneSAKValueError", current_measure |-> current_measure,
                carry |-> <<c>>, last_note_end |-> start]
          ELSE IF carry_end > end
          THEN [err |-> "none",
                current_measure |->
                    Append(current_measure, Note(c.note_num, start, end - start, 100, TRUE)),
                carry |-> <<[c EXCEPT !.duration = @ - (end - start)]>>,
                last_note_end |-> end]
          ELSE [err |-> "none", current_measure |-> Append(current_measure, c),
                carry |-> <<>>, last_note_end |-> start + c.duration]

\* "while inote < n_notes and track.notes[inote].start_time < end": st is
\* (inote, notes, current_measure, last_note_end, carry); a note that crosses
\* the end of the measure is truncated in the track itself. The state after
\* one iteration is computed once (x) and the loop goes on from it.
RECURSIVE measure_notes_loop(_, _)
measure_notes_loop(st, end) ==
    IF ~(st.inote < Len(st.notes) /\ st.notes[st.inote + 1].start_time < end) THEN st
    ELSE
      LET n == st.notes[st.inote + 1]
          gap == n.start_time - st.last_note_end
          with_rest == IF gap > 0
                       THEN Append(st.current_measure, Rest(st.last_note_end, gap))
                       ELSE st.current_measure
          note_end == n.start_time + n.duration
          duration == end - n.start_time
          truncated == [n EXCEPT !.duration = duration, !.tied = TRUE]
          next == IF note_end <= end
                  THEN [st EXCEPT !.inote = @ + 1,
                                  !.current_measure = Append(with_rest, n),
                                  !.last_note_end = note_end]
                  ELSE [st EXCEPT !.inote = @ + 1,
                                  !.notes[st.inote + 1] = truncated,
                                  !.current_measure = Append(with_rest, truncated),
                                  !.last_note_end = end,
                                  !.carry = <<[n EXCEPT !.duration = @ - duration]>>]
      IN  CHOOSE r \in {measure_notes_loop(x, end) : x \in {next}} : TRUE

\* The track's and the song's other events of the measure [start, end).
MeasureEvents(s, track, start, end) ==
    LET track_other == InWindow(track.other, start, end)
        ks == InWindow(s.key_signature_changes, start, end)
        ts == InWindow(s.time_signature_changes, start, end)
        tm == InWindow(s.tempo_changes, start, end)
    IN  [i \in DOMAIN track_other |->
            IF track_other[i].msg.type = "program_change"
            THEN Program(track_other[i].start_time, track_other[i].msg.program)
            ELSE track_other[i]]
        \o [i \in DOMAIN ks |-> KeySignature(start, ks[i].key)]
        \o [i \in DOMAIN ts |-> TimeSignature(start, ts[i].num, ts[i].denom)]
        \o [i \in DOMAIN tm |-> Tempo(tm[i].start_time, tm[i].bpm)]
        \o InWindow(s.other, start, end)

\* "for start, end in pairwise(measure_starts)", from pair imeasure on: st is
\* (err, inote, notes, carry, retval).
RECURSIVE populate_loop(_, _, _, _, _)
populate_loop(st, measure_starts, imeasure, s, track) ==
    IF imeasure >= Len(measure_starts) \/ st.err # "none" THEN st
    ELSE
      LET start == measure_starts[imeasure]
          end == measure_starts[imeasure + 1]
          carried == CarryPhase(st.carry, start, end, <<MeasureMarker(start, imeasure)>>)
          Notes(c) == measure_notes_loop(
                          [inote |-> st.inote, notes |-> st.notes,
                           current_measure |-> c.current_measure,
                           last_note_end |-> c.last_note_end,
                           carry |-> c.carry], end)
          Close(noted) ==
              LET gap == end - noted.last_note_end
                  closed == IF gap > 0
                            THEN Append(noted.current_measure,
                                        Rest(noted.last_note_end, gap))
                            ELSE noted.current_measure
                  current_measure ==
                      SortMeasure(closed \o MeasureEvents(s, track, start, end))
              IN  [err |-> "none", inote |-> noted.inote, notes |-> noted.notes,
                   carry |-> noted.carry, retval |-> Append(st.retval, current_measure)]
      IN  IF carried.err # "none" THEN [st EXCEPT !.err = carried.err]
          ELSE CHOOSE r \in {populate_loop(x, measure_starts, imeasure + 1, s, track) :
                                 x \in {Close(noted) : noted \in {Notes(carried)}}} : TRUE

\* "Artificially add an extra measure on the end":
\* 2 * measure_starts[-1] - measure_starts[-2].
SyntheticBoundary(measure_starts) ==
    2 * measure_starts[Len(measure_starts)] - measure_starts[Len(measure_starts) - 1]

\* populate_measures(song, track) for track itrack of s: what it returns or
\* raises, and the notes of the track afterwards.
populate_measures(s, itrack) ==
    LET track == s.tracks[itrack]
        starts == ChirpSong_measure_starts(s)
        n == Len(starts.val)
    IN  IF starts.err # "none"
        THEN [err |-> starts.err, val |-> <<>>, notes |-> track.notes]
        ELSE IF n < 2
        THEN [err |-> "IndexError", val |-> <<>>, notes |-> track.notes]
        ELSE
          LET measure_starts == Append(starts.val, SyntheticBoundary(starts.val))
              Populated(ms) ==
                  populate_loop([err |-> "none", inote |-> 0, notes |-> track.notes,
                                 carry |-> <<>>, retval |-> <<>>], ms, 1, s, track)
          IN  CHOOSE out \in {[err |-> r.err, val |-> r.retval, notes |-> r.notes] :
                                 r \in {Populated(ms) : ms \in {measure_starts}}} : TRUE

count_notes(measure) == Len(SelectSeq(measure, LAMBDA e : e.type = "Note"))

\* all(count_notes(m[-1]) == 0 for m in measures_list), from list i on:
\* "true", "false", or "IndexError" when an empty list is reached first.
RECURSIVE LastMeasuresEmpty(_, _)
LastMeasuresEmpty(measures_list, i) ==
    IF i > Len(measures_list) THEN "true"
    ELSE IF measures_list[i] = <<>> THEN "IndexError"
    ELSE IF count_notes(measures_list[i][Len(measures_list[i])]) # 0 THEN "false"
    ELSE LastMeasuresEmpty(measures_list, i + 1)

\* With no list at all the condition stays true and nothing is popped.
RECURSIVE trim_measures(_)
trim_measures(measures_list) ==
    LET empty == LastMeasuresEmpty(measures_list, 1)
    IN  IF measures_list = <<>> THEN Raise("NonTermination")
        ELSE IF empty = "IndexError" THEN Raise("IndexError")
        ELSE IF empty = "false" THEN Ok(measures_list)
        ELSE trim_measures([i \in DOMAIN measures_list |->
                               SubSeq(measures_list[i], 1, Len(measures_list[i]) - 1)])

\* "[populate_measures(song, t) for t in song.tracks]", from track i on: st is
\* (err, song, all_measures).
RECURSIVE all_measures_loop(_, _)
all_measures_loop(st, i) ==
    IF i > Len(st.song.tracks) \/ st.err # "none" THEN st
    ELSE LET After(r) == [err |-> r.err,
                          song |-> [st.song EXCEPT !.tracks[i].notes = r.notes],
                          all_measures |-> Append(st.all_measures, r.val)]
         IN  CHOOSE out \in {all_measures_loop(x, i + 1) :
                                x \in {After(r) : r \in {populate_measures(st.song, i)}}} :
                 TRUE

\* get_measures(song): what it returns or raises, and the song afterwards.
get_measures(s) ==
    LET Trimmed(r) ==
            IF r.err # "none" THEN [err |-> r.err, val |-> <<>>, song |-> r.song]
            ELSE CHOOSE out \in {[err |-> trimmed.err, val |-> trimmed.val,
                                  song |-> r.song] :
                                     trimmed \in {trim_measures(r.all_measures)}} : TRUE
    IN  CHOOSE out \in
            {Trimmed(r) : r \in {all_measures_loop(
                [err |-> "none", song |-> s, all_measures |-> <<>>], 1)}} : TRUE

(***************************************************************************)
(* Greedy decomposition of a duration into allowed note values.            *)
(* A Fraction(n, d) of a quarter note is the pair <<n, d>>; a remainder,    *)
(* which Python holds as a Fraction of a tick, is held as a whole number of *)
(* 1/CommonDenominator ticks.                                               *)
(***************************************************************************)
Fraction(n, d) == <<n, d>>

FractionLess(a, b) == a[1] * b[2] < b[1] * a[2]

FractionMin(fractions) == CHOOSE a \in fractions : \A b \in fractions : ~FractionLess(b, a)

FractionMax(fractions) == CHOOSE a \in fractions : \A b \in fractions : ~FractionLess(a, b)

\* The denominators of both tables are powers of two: the largest is a
\* common multiple of them all.
CommonDenominator(fractions) == SetMax({f[2] : f \in fractions})

\* f * ppq, in 1/scale ticks.
ScaledTicks(f, ppq, scale) == (f[1] * ppq * scale) \div f[2]

\* The note values of C128 BASIC and of ML64, each with its code.
basic_durations ==
    (Fraction(6, 1) :> "w.") @@ (Fraction(4, 1) :> "w") @@ (Fraction(3, 1) :> "h.")
    @@ (Fraction(2, 1) :> "h") @@ (Fraction(3, 2) :> "q.") @@ (Fraction(1, 1) :> "q")
    @@ (Fraction(3, 4) :> "i.") @@ (Fraction(1, 2) :> "i") @@ (Fraction(1, 4) :> "s")

ml64_durations ==
    (Fraction(6, 1) :> "1d") @@ (Fraction(4, 1) :> "1") @@ (Fraction(3, 1) :> "2d")
    @@ (Fraction(2, 1) :> "2") @@ (Fraction(3, 2) :> "4d") @@ (Fraction(1, 1) :> "4")
    @@ (Fraction(3, 4) :> "8d") @@ (Fraction(1, 2) :> "8") @@ (Fraction(1, 4) :> "16")

\* for d in sorted(allowed_durations, reverse=True): if remainder >= d * ppq
LargestFitting(remainder, ppq, allowed, scale) ==
    {d \in allowed : /\ remainder >= ScaledTicks(d, ppq, scale)
                     /\ \A e \in allowed : remainder >= ScaledTicks(e, ppq, scale)
                                              => ~FractionLess(d, e)}

\* A pass of the for loop that breaks nowhere leaves the remainder as it
\* was, and the while loop never ends.
RECURSIVE decompose_duration_loop(_, _, _, _, _)
decompose_duration_loop(remainder, ppq, allowed, scale, ret_durations) ==
    IF ~(remainder > 0) THEN Ok(ret_durations)
    ELSE IF remainder < ScaledTicks(FractionMin(allowed), ppq, scale)
    THEN Raise("ChiptuneSAKValueError")
    ELSE IF LargestFitting(remainder, ppq, allowed, scale) = {}
    THEN Raise("NonTermination")
    ELSE CHOOSE r \in {decompose_duration_loop(remainder - ScaledTicks(d, ppq, scale),
                                               ppq, allowed, scale,
                                               Append(ret_durations, d)) :
                          d \in LargestFitting(remainder, ppq, allowed, scale)} : TRUE

decompose_duration(duration, ppq, allowed_durations) ==
    decompose_duration_loop(duration * CommonDenominator(allowed_durations), ppq,
                            allowed_durations,
                            CommonDenominator(allowed_durations), <<>>)

\* The guard compares the remainder, in ticks, with min(ml64_durations), a
\* fraction of a quarter note.
RECURSIVE make_ml64_notes_loop(_, _, _, _)
make_ml64_notes_loop(remainder, ppq, scale, durs) ==
    IF ~(remainder > 0) THEN Ok(durs)
    ELSE IF remainder < ScaledTicks(FractionMin(DOMAIN ml64_durations), 1, scale)
    THEN Raise("ChiptuneSAKValueError")
    ELSE IF LargestFitting(remainder, ppq, DOMAIN ml64_durations, scale) = {}
    THEN Raise("NonTermination")
    ELSE CHOOSE r \in {make_ml64_notes_loop(remainder - ScaledTicks(f, ppq, scale),
                                            ppq, scale, Append(durs, f)) :
                          f \in LargestFitting(remainder, ppq,
                                               DOMAIN ml64_durations, scale)} : TRUE

\* The returned string, as the sequence of its "name(duration)" pieces.
make_ml64_notes(note_name, duration, ppq) ==
    LET scale == CommonDenominator(DOMAIN ml64_durations)
        r == make_ml64_notes_loop(duration * scale, ppq, scale, <<>>)
        durs == r.val
    IN  IF r.err # "none" THEN r
        ELSE IF note_name = "r" \/ note_name = "c"
        THEN Ok([i \in 1..Len(durs) |-> <<note_name, ml64_durations[durs[i]]>>])
        ELSE IF Len(durs) = 0 THEN Raise("IndexError")
        ELSE Ok([i \in 1..Len(durs) |->
                    <<IF i = 1 THEN note_name ELSE "c", ml64_durations[durs[i]]>>])

(***************************************************************************)
(* SpecFn: the pure functions applied to inputs drawn in the initial state. *)
(***************************************************************************)
PpqValues == {960, 480}

TimeValues == {0, 100, 240, 320, 480, 700, 720}

DurationValues == {0, 1, 2, 3, 5, 240, 320, 480, 960}

NoteGridValues == {1, 2, 3, 4, 7, 240, 640, 960}

QTickValues == 1..5

\* All sequences over S of length 1..n.
RECURSIVE SeqsUpTo(_, _)
SeqsUpTo(S, n) ==
    IF n = 0 THEN {}
    ELSE LET shorter == SeqsUpTo(S, n - 1)
         IN  {<<x>> : x \in S} \cup shorter
               \cup {Append(s, x) : s \in shorter, x \in S}

QuantizeFnArgs ==
    {[fn |-> "quantize_fn", t |-> t, qticks |-> q] : t \in 0..MaxT, q \in QTickValues}

FindQuantizationArgs ==
    {[fn |-> "find_quantization", time_series |-> ts, ppq |-> p] :
        ts \in SeqsUpTo(TimeValues, MaxTimes), p \in PpqValues}

FindDurationQuantizationArgs ==
    {[fn |-> "find_duration_quantization", durations |-> ds, qticks_note |-> g] :
        ds \in SeqsUpTo(DurationValues, MaxTimes), g \in NoteGridValues}

OctaveOffsets == {-1, 0, 1}

\* Every MIDI note number, and one on each side that is none.
PitchToNoteNameArgs ==
    {[fn |-> "pitch_to_note_name", note_num |-> n, octave_offset |-> o] :
        n \in -1..128, o \in OctaveOffsets}

NoteNames ==
    {<<"C", "4">>, <<"C", "#", "4">>, <<"C", "#", "#", "4">>, <<"D", "4">>,
     <<"E", "b", "b", "4">>, <<"G", "3">>, <<"B", "7">>, <<"C", "8">>,
     <<"H", "4">>, <<"C", "#", "b", "4">>, <<"C">>}

NoteNameToPitchArgs ==
    {[fn |-> "note_name_to_pitch", note_name |-> nm, octave_offset |-> o] :
        nm \in NoteNames, o \in OctaveOffsets}

DecomposeDurations == {0, 100, 240, 480, 600, 720, 1200, 1680, 6000}

DecomposePpqValues == {PPQ, 480}

DecomposeDurationArgs ==
    {[fn |-> "decompose_duration", duration |-> d, ppq |-> p] :
        d \in DecomposeDurations, p \in DecomposePpqValues}

\* 'r' a rest, 'c' a continuation, and a note name.
Ml64NoteNames == {"r", "c", "C4"}

MakeMl64NotesArgs ==
    {[fn |-> "make_ml64_notes", note_name |-> nm, duration |-> d, ppq |-> p] :
        nm \in Ml64NoteNames, d \in DecomposeDurations, p \in DecomposePpqValues}

\* ChirpSong.reset_all: the song as constructed.
EmptySong ==
    [ppq |-> PPQ, qticks_notes |-> PPQ, qticks_durations |-> PPQ,
     tracks |-> <<>>, other |-> <<>>, time_signature_changes |-> <<>>,
     key_signature_changes |-> <<>>, tempo_changes |-> <<>>]

NoOp == [op |-> "none", qticks_notes |-> 0, qticks_durations |-> 0]

NoArgs == [fn |-> "none"]

NoRet == [fn |-> "none", err |-> "none", val |-> 0]

Ret(fn, r) == [fn |-> fn, err |-> r.err, val |-> r.val]

InitFn ==
    /\ args \in QuantizeFnArgs \cup FindQuantizationArgs \cup FindDurationQuantizationArgs
                \cup PitchToNoteNameArgs \cup NoteNameToPitchArgs
                \cup DecomposeDurationArgs \cup MakeMl64NotesArgs
    /\ ret = NoRet
    /\ song = EmptySong
    /\ pre = EmptySong
    /\ lastOp = NoOp
    /\ reps = 0
    /\ acted = FALSE
    /\ modulations = 0

CallQuantizeFn ==
    /\ args.fn = "quantize_fn"
    /\ ret' = Ret("quantize_fn", Ok(quantize_fn(args.t, args.qticks)))
    /\ UNCHANGED <<song, lastOp, reps, acted, pre, args, modulations>>

CallFindQuantization ==
    /\ args.fn = "find_quantization"
    /\ ret' = Ret("find_quantization", Ok(find_quantization(args.time_series, args.ppq)))
    /\ UNCHANGED <<song, lastOp, reps, acted, pre, args, modulations>>

CallFindDurationQuantization ==
    /\ args.fn = "find_duration_quantization"
    /\ ret' = Ret("find_duration_quantization",
                  find_duration_quantization(args.durations, args.qticks_note))
    /\ UNCHANGED <<song, lastOp, reps, acted, pre, args, modulations>>

CallPitchToNoteName ==
    /\ args.fn = "pitch_to_note_name"
    /\ ret' = Ret("pitch_to_note_name",
                  pitch_to_note_name(args.note_num, args.octave_offset))
    /\ UNCHANGED <<song, lastOp, reps, acted, pre, args, modulations>>

\* note_name_to_pitch on a name handed in, or on the name that
\* pitch_to_note_name has just returned, with the same octave offset.
CallNoteNameToPitch ==
    /\ \/ args.fn = "note_name_to_pitch"
       \/ args.fn = "pitch_to_note_name" /\ ret.fn = "pitch_to_note_name"
                                         /\ ret.err = "none"
    /\ LET note_name == IF args.fn = "note_name_to_pitch" THEN args.note_name
                        ELSE ret.val
       IN  ret' = Ret("note_name_to_pitch",
                      note_name_to_pitch(note_name, args.octave_offset))
    /\ UNCHANGED <<song, lastOp, reps, acted, pre, args, modulations>>

\* ctsC128Basic: decompose_duration(e.duration, ppq, basic_durations).
CallDecomposeDuration ==
    /\ args.fn = "decompose_duration"
    /\ ret' = Ret("decompose_duration",
                  decompose_duration(args.duration, args.ppq, DOMAIN basic_durations))
    /\ UNCHANGED <<song, lastOp, reps, acted, pre, args, modulations>>

CallMakeMl64Notes ==
    /\ args.fn = "make_ml64_notes"
    /\ ret' = Ret("make_ml64_notes",
                  make_ml64_notes(args.note_name, args.duration, args.ppq))
    /\ UNCHANGED <<song, lastOp, reps, acted, pre, args, modulations>>

NextFn ==
    \/ CallQuantizeFn
    \/ CallFindQuantization
    \/ CallFindDurationQuantization
    \/ CallPitchToNoteName
    \/ CallNoteNameToPitch
    \/ CallDecomposeDuration
    \/ CallMakeMl64Notes

SpecFn == InitFn /\ [][NextFn]_vars

(***************************************************************************)
(* Spec: a song as an importer built it, under the mutating operations.     *)
(***************************************************************************)
StartValues == {0, 1, 3}

NoteDurationValues == {1, 3}

PitchValues == {60, 64}

MetaTickValues == {2}

TrackCounts == {1, 2}

\* The grids handed to quantize; 0 is an omitted grid.
GridArgs == {0, 2, 3}

NoteChoices ==
    {Note(st, p, d, 100, FALSE) :
        st \in StartValues, p \in PitchValues, d \in NoteDurationValues}

\* The note sequences of length k over choices.
RECURSIVE NoteSeqs(_, _)
NoteSeqs(choices, k) ==
    IF k = 0 THEN {<<>>}
    ELSE {Append(ns, n) : ns \in NoteSeqs(choices, k - 1), n \in choices}

Ascending(ns) ==
    \A i \in 1..(Len(ns) - 1) : ns[i].start_time <= ns[i + 1].start_time

\* The time-ascending ones: what an importer leaves in a track.
AscendingNoteSeqs(choices, k) == {ns \in NoteSeqs(choices, k) : Ascending(ns)}

\* The meta events of an imported song, all at tick m apart from the first
\* time signature.
SongWithMeta(m) ==
    [EmptySong EXCEPT
        !.time_signature_changes =
            IF m = 0 THEN <<TimeSignature(0, 4, 4)>>
            ELSE <<TimeSignature(0, 4, 4), TimeSignature(m, 3, 4)>>,
        !.key_signature_changes = <<KeySignature(m, "C")>>,
        !.tempo_changes = <<Tempo(m, 120)>>,
        !.other = <<OtherMidi(m, Msg("text", 0))>>]

\* The song s with one track (c = 1, notes n1) or two; the first track has a
\* program change at tick m.
ImportedSong(s, m, c, n1, n2) ==
    LET first == ChirpTrack(s, n1, <<OtherMidi(m, Msg("program_change", 5))>>)
        second == ChirpTrack(s, n2, <<>>)
    IN  [s EXCEPT !.tracks = IF c = 1 THEN <<first>> ELSE <<first, second>>]

\* How the MaxNotes notes are shared between the tracks.
NoteCounts ==
    {<<c, k1, k2>> \in TrackCounts \X (0..MaxNotes) \X (0..MaxNotes) :
        /\ k1 + k2 <= MaxNotes
        /\ c = 1 => (k1 > 0 /\ k2 = 0)}

ImportedSongs ==
    UNION {{ImportedSong(SongWithMeta(m), m, k[1], n1, n2) :
               m \in MetaTickValues,
               n1 \in AscendingNoteSeqs(NoteChoices, k[2]),
               n2 \in AscendingNoteSeqs(NoteChoices, k[3])} : k \in NoteCounts}

Init ==
    /\ song \in ImportedSongs
    /\ pre = EmptySong
    /\ lastOp = NoOp
    /\ reps = 0
    /\ acted = FALSE
    /\ modulations = 0
    /\ args = NoArgs
    /\ ret = NoRet

\* The history kept of a call op that takes the song to s.
Record(op, s) ==
    /\ lastOp' = op
    /\ reps' = IF op = lastOp THEN 2 ELSE 1
    /\ acted' = IF op = lastOp THEN (acted \/ s # song) ELSE s # song
    /\ modulations' = IF op.op = "modulate" THEN modulations + 1 ELSE modulations

Quantize(qticks_notes, qticks_durations) ==
    LET s == ChirpSong_quantize(song, qticks_notes, qticks_durations)
    IN  /\ song' = s
        /\ ret' = Ret("quantize", Ok(0))
        /\ Record([op |-> "quantize", qticks_notes |-> qticks_notes,
                   qticks_durations |-> qticks_durations], s)
        /\ UNCHANGED <<pre, args>>

RemovePolyphony ==
    LET r == ChirpSong_remove_polyphony(song)
    IN  /\ song' = r.song
        /\ ret' = [fn |-> "remove_polyphony", err |-> r.err, val |-> 0]
        /\ Record([NoOp EXCEPT !.op = "remove_polyphony"], r.song)
        /\ UNCHANGED <<pre, args>>

EstimateQuantization ==
    LET r == ChirpSong_estimate_quantization(song)
    IN  /\ song' = r.song
        /\ ret' = [fn |-> "estimate_quantization", err |-> r.err, val |-> r.val]
        /\ Record([NoOp EXCEPT !.op = "estimate_quantization"], r.song)
        /\ UNCHANGED <<pre, args>>

Next ==
    \/ \E qn \in GridArgs, qd \in GridArgs : Quantize(qn, qd)
    \/ RemovePolyphony
    \/ EstimateQuantization

Spec == Init /\ [][Next]_vars

(***************************************************************************)
(* SpecModulate: a song under metric modulation, quantize and               *)
(* remove_polyphony.                                                        *)
(***************************************************************************)
ModulateStartValues == {0, 7}

ModulateDurationValues == {1, 12}

ModulateMetaTicks == {0, 2}

\* The grid handed to quantize for both arguments; 0 is an omitted grid.
ModulateGridArgs == {0, 12}

\* The factors num / denom handed to modulate.
ModulateFactors == {<<3, 2>>, <<2, 3>>}

ModulateNoteChoices ==
    {Note(st, 60, d, 100, FALSE) :
        st \in ModulateStartValues, d \in ModulateDurationValues}

ModulateSongs ==
    UNION {{ImportedSong(SongWithMeta(m), m, k[1], n1, n2) :
               m \in ModulateMetaTicks,
               n1 \in AscendingNoteSeqs(ModulateNoteChoices, k[2]),
               n2 \in AscendingNoteSeqs(ModulateNoteChoices, k[3])} : k \in NoteCounts}

InitModulate ==
    /\ song \in ModulateSongs
    /\ pre = EmptySong
    /\ lastOp = NoOp
    /\ reps = 0
    /\ acted = FALSE
    /\ modulations = 0
    /\ args = NoArgs
    /\ ret = NoRet

\* song.modulate(num, denom).  The history keeps the song as it was before
\* this call (pre) and, when the call before was a modulate too, that call's
\* factor (previous) and the song as it was before it (origin).
Modulate(num, denom) ==
    /\ modulations < MaxModulations
    /\ \E r \in {ChirpSong_modulate(song, num, denom)} :
          /\ song' = r.song
          /\ ret' = [fn |-> "modulate", err |-> r.err, val |-> 0]
          /\ args' = [fn |-> "modulate", num |-> num, denom |-> denom,
                      previous |-> IF lastOp.op = "modulate"
                                   THEN <<args.num, args.denom>> ELSE <<>>,
                      origin |-> IF lastOp.op = "modulate" THEN pre ELSE song]
          /\ pre' = song
          /\ Record([NoOp EXCEPT !.op = "modulate"], r.song)

NextModulate ==
    \/ \E f \in ModulateFactors : Modulate(f[1], f[2])
    \/ \E g \in ModulateGridArgs : Quantize(g, g)
    \/ RemovePolyphony

SpecModulate == InitModulate /\ [][NextModulate]_vars

(***************************************************************************)
(* SpecMeasures: an imported song under the beat timeline and the measure   *)
(* populator.                                                               *)
(***************************************************************************)
MeasureTimeSignatures ==
    {<<TimeSignature(0, 4, 4)>>,
     <<TimeSignature(0, 2, 4)>>,
     <<TimeSignature(0, 2, 4), TimeSignature(1920, 3, 4)>>,
     <<>>,
     <<TimeSignature(960, 4, 4)>>}

\* The ticks handed to get_measure_beat.
MeasureBeatTicks == {1000, 1920, 9000}

MeasureStartValues == {0, 480, 2880}

MeasureDurationValues == {960, 4800}

MeasureNoteChoices ==
    {Note(st, 60, d, 100, FALSE) : st \in MeasureStartValues, d \in MeasureDurationValues}

MeasureSongBase(ts) ==
    [EmptySong EXCEPT
        !.time_signature_changes = ts,
        !.key_signature_changes = <<KeySignature(0, "C")>>,
        !.tempo_changes = <<Tempo(960, 120)>>,
        !.other = <<OtherMidi(0, Msg("text", 0))>>]

MeasureSongs ==
    UNION {{ImportedSong(MeasureSongBase(ts), 0, k[1], n1, n2) :
               ts \in MeasureTimeSignatures,
               n1 \in AscendingNoteSeqs(MeasureNoteChoices, k[2]),
               n2 \in AscendingNoteSeqs(MeasureNoteChoices, k[3])} : k \in NoteCounts}

InitMeasures ==
    /\ song \in MeasureSongs
    /\ pre = EmptySong
    /\ lastOp = NoOp
    /\ reps = 0
    /\ acted = FALSE
    /\ modulations = 0
    /\ args = NoArgs
    /\ ret = NoRet

MeasuresAndBeats ==
    /\ ret' = Ret("measures_and_beats", ChirpSong_measures_and_beats(song))
    /\ pre' = song
    /\ Record([NoOp EXCEPT !.op = "measures_and_beats"], song)
    /\ UNCHANGED <<song, args>>

PopulateMeasures(itrack) ==
    \E r \in {populate_measures(song, itrack)} :
        /\ song' = [song EXCEPT !.tracks[itrack].notes = r.notes]
        /\ ret' = [fn |-> "populate_measures", err |-> r.err, val |-> r.val,
                   track |-> itrack]
        /\ pre' = song
        /\ Record([NoOp EXCEPT !.op = "populate_measures"], song')
        /\ UNCHANGED args

GetMeasures ==
    \E r \in {get_measures(song)} :
        /\ song' = r.song
        /\ ret' = [fn |-> "get_measures", err |-> r.err, val |-> r.val]
        /\ pre' = song
        /\ Record([NoOp EXCEPT !.op = "get_measures"], r.song)
        /\ UNCHANGED args

GetMeasureBeat(time_in_ticks) ==
    /\ ret' = Ret("get_measure_beat", ChirpSong_get_measure_beat(song, time_in_ticks))
    /\ args' = [fn |-> "get_measure_beat", time_in_ticks |-> time_in_ticks]
    /\ pre' = song
    /\ Record([NoOp EXCEPT !.op = "get_measure_beat"], song)
    /\ UNCHANGED song

NextMeasures ==
    \/ MeasuresAndBeats
    \/ \E t \in MeasureBeatTicks : GetMeasureBeat(t)
    \/ \E itrack \in 1..Len(song.tracks) : PopulateMeasures(itrack)
    \/ GetMeasures

SpecMeasures == InitMeasures /\ [][NextMeasures]_vars

(***************************************************************************)
(* SpecTimeline: songs with time-signature changes on and off the measure   *)
(* boundaries, with very short beats, with no track or no note, under the   *)
(* beat timeline, the signature lookups and the measure populator.          *)
(***************************************************************************)
TimelineTimeSignatures ==
    {<<TimeSignature(0, 4, 4)>>,
     <<TimeSignature(0, 3, 4), TimeSignature(2880, 4, 4)>>,
     <<TimeSignature(0, 4, 4), TimeSignature(2880, 3, 4)>>,
     <<TimeSignature(0, 2, 4), TimeSignature(1920, 3, 4)>>,
     <<TimeSignature(0, 4, 7680)>>}

TimelineKeySignatures == <<KeySignature(0, "C"), KeySignature(2880, "G")>>

\* The ticks handed to get_time_signature and get_key_signature.
TimelineTicks == {0, 1000, 2880}

TimelineStartValues == {0, 2880}

TimelineDurationValues == {480, 1440}

TimelineNoteChoices ==
    {Note(st, 60, d, 100, FALSE) :
        st \in TimelineStartValues, d \in TimelineDurationValues}

TimelineSongBase(ts) ==
    [EmptySong EXCEPT
        !.time_signature_changes = ts,
        !.key_signature_changes = TimelineKeySignatures,
        !.tempo_changes = <<Tempo(960, 120)>>,
        !.other = <<OtherMidi(0, Msg("text", 0))>>]

\* No track, one track of up to two notes, or two tracks: one note in the
\* first and at most one in the second.
TimelineSongs ==
    {TimelineSongBase(ts) : ts \in TimelineTimeSignatures}
    \cup UNION {{ImportedSong(TimelineSongBase(ts), 0, 1, n1, <<>>) :
                    ts \in TimelineTimeSignatures,
                    n1 \in AscendingNoteSeqs(TimelineNoteChoices, k)} : k \in 0..2}
    \cup UNION {{ImportedSong(TimelineSongBase(ts), 0, 2, n1, n2) :
                    ts \in TimelineTimeSignatures,
                    n1 \in AscendingNoteSeqs(TimelineNoteChoices, k[1]),
                    n2 \in AscendingNoteSeqs(TimelineNoteChoices, k[2])} :
                        k \in (1..1) \X (0..1)}

InitTimeline ==
    /\ song \in TimelineSongs
    /\ pre = EmptySong
    /\ lastOp = NoOp
    /\ reps = 0
    /\ acted = FALSE
    /\ modulations = 0
    /\ args = NoArgs
    /\ ret = NoRet

GetTimeSignature(time_in_ticks) ==
    /\ ret' = Ret("get_time_signature", ChirpSong_get_time_signature(song, time_in_ticks))
    /\ args' = [fn |-> "get_time_signature", time_in_ticks |-> time_in_ticks]
    /\ pre' = song
    /\ Record([NoOp EXCEPT !.op = "get_time_signature"], song)
    /\ UNCHANGED song

GetKeySignature(time_in_ticks) ==
    /\ ret' = Ret("get_key_signature", ChirpSong_get_key_signature(song, time_in_ticks))
    /\ args' = [fn |-> "get_key_signature", time_in_ticks |-> time_in_ticks]
    /\ pre' = song
    /\ Record([NoOp EXCEPT !.op = "get_key_signature"], song)
    /\ UNCHANGED song

NextTimeline ==
    \/ MeasuresAndBeats
    \/ \E t \in TimelineTicks : GetTimeSignature(t)
    \/ \E t \in TimelineTicks : GetKeySignature(t)
    \/ \E itrack \in 1..Len(song.tracks) : PopulateMeasures(itrack)
    \/ GetMeasures

SpecTimeline == InitTimeline /\ [][NextTimeline]_vars

(***************************************************************************)
(* Claims about the pure functions (checked under SpecFn).                  *)
(***************************************************************************)
QfnNearest ==
    LET t == args.t
        g == args.qticks
    IN  /\ ret.val % g = 0
        /\ \A k \in 0..((t \div g) + 1) : Abs(t - ret.val) <= Abs(t - k * g)

QfnTie == 2 * (args.t % args.qticks) = args.qticks

\* C7, as the spec states it: quantize_fn(t, grid) returns the multiple of grid
\* nearest to t, and the upper multiple when t is halfway between two multiples.
C7_UpperOnTie ==
    ret.fn = "quantize_fn" =>
        /\ QfnNearest
        /\ (QfnTie => ret.val = ((args.t \div args.qticks) + 1) * args.qticks)

\* C7, amended: quantize_fn(t, grid) returns the multiple of grid nearest to t for
\* every t >= 0 and grid >= 1, and the lower (earlier) multiple when t is halfway
\* between two multiples.
C7_LowerOnTie ==
    ret.fn = "quantize_fn" =>
        /\ QfnNearest
        /\ (QfnTie => ret.val = (args.t \div args.qticks) * args.qticks)

C7_Witness ==
    /\ ret.fn = "quantize_fn"
    /\ QfnTie
    /\ args.t > args.qticks
    /\ ret.val < args.t

\* The candidate grids in the order the spec lists them: quarter note, its
\* triplet, eighth note, its triplet, ... down to the 128th note and its triplet.
NumCandidates == 12

RECURSIVE Pow2(_)
Pow2(n) == IF n = 0 THEN 1 ELSE 2 * Pow2(n - 1)

Candidate(ppq, i) ==
    LET straight == (ppq * 4) \div (4 * Pow2((i - 1) \div 2))
    IN  IF i % 2 = 1 THEN straight ELSE (straight * 2) \div 3

CandidateError(i) == objective_error(args.time_series, Candidate(args.ppq, i))

ExactFitExists == \E i \in 1..NumCandidates : CandidateError(i) = 0

FirstExactFit == SetMin({i \in 1..NumCandidates : CandidateError(i) = 0})

\* The candidates, up to the first exact fit, that are worse than their predecessor.
Worsenings == {i \in 2..FirstExactFit : CandidateError(i) > CandidateError(i - 1)}

\* C8, as the spec states it: whenever the times are all multiples of some
\* candidate grid, find_quantization returns a grid whose objective error is 0.
C8_ExactFitFound ==
    (ret.fn = "find_quantization" /\ ExactFitExists) =>
        objective_error(args.time_series, ret.val) = 0

\* C8, amended: whenever the times are all multiples of some candidate grid,
\* find_quantization returns the first such candidate (objective error 0) provided
\* no candidate tried up to it has a larger error than the candidate tried just
\* before it; otherwise it returns the candidate tried just before the first such
\* worsening, whose objective error is not 0.
C8_FirstLocalMinimum ==
    (ret.fn = "find_quantization" /\ ExactFitExists) =>
        IF Worsenings = {}
        THEN /\ ret.val = Candidate(args.ppq, FirstExactFit)
             /\ objective_error(args.time_series, ret.val) = 0
        ELSE /\ ret.val = Candidate(args.ppq, SetMin(Worsenings) - 1)
             /\ objective_error(args.time_series, ret.val) > 0

\* Times {240, 480} under ppq 960: the exact fit 240 is found after four candidates.
C8_Witness ==
    /\ ret.fn = "find_quantization"
    /\ ExactFitExists
    /\ FirstExactFit > 2
    /\ Worsenings = {}
    /\ objective_error(args.time_series, ret.val) = 0

DurationSet == SeqToSet(args.durations)

\* C9: for positive durations and note_grid >= 1, find_duration_quantization
\* returns (it raises nothing) a grid g with 1 <= g <= note_grid and
\* min_duration / g >= 0.9, and no duration of the set rounds to zero on g.
C9_DurationGrid ==
    (/\ ret.fn = "find_duration_quantization"
     /\ \A d \in DurationSet : d > 0
     /\ args.qticks_note >= 1) =>
        /\ ret.err = "none"
        /\ 1 <= ret.val
        /\ ret.val <= args.qticks_note
        /\ 10 * SetMin(DurationSet) >= 9 * ret.val
        /\ \A d \in DurationSet : quantize_fn(d, ret.val) > 0

\* The grid had to be refined: the shortest note is shorter than note_grid.
C9_Witness ==
    /\ ret.fn = "find_duration_quantization"
    /\ \A d \in DurationSet : d > 0
    /\ ret.err = "none"
    /\ ret.val < args.qticks_note
    /\ Cardinality(DurationSet) > 1

(***************************************************************************)
(* Claims about the song operations (checked under Spec).                   *)
(***************************************************************************)
TrackNotes == {<<i, j>> \in (1..Len(song.tracks)) \X (1..MaxNotes + 1) :
                  j <= Len(song.tracks[i].notes)}

PositiveGrids == lastOp.qticks_notes > 0 /\ lastOp.qticks_durations > 0

\* C1: after quantize(g_n, g_d) with positive grids the song is quantized: every
\* note start is a multiple of g_n, every duration a multiple of g_d and at least
\* g_d, and the stored grids of the song and of each track are (g_n, g_d).
C1_QuantizePostcondition ==
    (lastOp.op = "quantize" /\ PositiveGrids) =>
        /\ ChirpSong_is_quantized(song)
        /\ \A p \in TrackNotes :
              LET n == song.tracks[p[1]].notes[p[2]]
              IN  /\ n.start_time % lastOp.qticks_notes = 0
                  /\ n.duration % lastOp.qticks_durations = 0
                  /\ n.duration >= lastOp.qticks_durations
        /\ song.qticks_notes = lastOp.qticks_notes
        /\ song.qticks_durations = lastOp.qticks_durations
        /\ \A i \in 1..Len(song.tracks) :
              /\ song.tracks[i].qticks_notes = lastOp.qticks_notes
              /\ song.tracks[i].qticks_durations = lastOp.qticks_durations

\* A first quantize on grids (2, 3) that moved notes in both tracks' song.
C1_Witness ==
    /\ lastOp.op = "quantize"
    /\ lastOp.qticks_notes = 2
    /\ lastOp.qticks_durations = 3
    /\ reps = 1
    /\ acted
    /\ Len(song.tracks) = 2
    /\ \A i \in 1..2 : song.tracks[i].notes # <<>>

\* C2: quantize is idempotent: a second quantize(g_n, g_d) right after a first
\* one with the same positive grids leaves the whole song (notes, meta events,
\* stored grids) as it is, and the song stays quantized.
C2_QuantizeIdempotent ==
    [][(lastOp.op = "quantize" /\ PositiveGrids /\ lastOp' = lastOp) =>
          (song' = song /\ ChirpSong_is_quantized(song'))]_vars

\* The second of two identical calls, the first of which changed the song.
C2_Witness ==
    /\ lastOp.op = "quantize"
    /\ PositiveGrids
    /\ reps = 2
    /\ acted
    /\ song.tracks[1].notes # <<>>

\* C3: estimate_quantization returns grids (q_n, q_d), and after
\* quantize(q_n, q_d) and remove_polyphony the song is quantized, not
\* polyphonic, and its stored grids are still (q_n, q_d).
C3_EstimateQuantizeReduce ==
    lastOp.op = "estimate_quantization" =>
        /\ ret.err = "none"
        /\ LET quantized == ChirpSong_quantize(song, ret.val[1], ret.val[2])
               reduced == ChirpSong_remove_polyphony(quantized)
           IN  /\ reduced.err = "none"
               /\ ChirpSong_is_quantized(reduced.song)
               /\ ~ChirpSong_is_polyphonic(reduced.song)
               /\ reduced.song.qticks_notes = ret.val[1]
               /\ reduced.song.qticks_durations = ret.val[2]

\* In every reachable song the notes of each track are time-ascending and
\* have positive durations (the precondition of C4).
TracksWellFormed ==
    \A i \in 1..Len(song.tracks) :
        /\ Ascending(song.tracks[i].notes)
        /\ \A j \in 1..Len(song.tracks[i].notes) : song.tracks[i].notes[j].duration > 0

\* C4: after remove_polyphony, in every track each note starts at or after the
\* end of the note before it (the track is not polyphonic) and the start
\* ticks are strictly increasing.
C4_Monophonic ==
    (lastOp.op = "remove_polyphony" /\ ret.err = "none") =>
        \A i \in 1..Len(song.tracks) :
            LET notes == song.tracks[i].notes
            IN  /\ ~ChirpTrack_is_polyphonic(song.tracks[i])
                /\ \A j \in 1..(Len(notes) - 1) :
                      /\ notes[j + 1].start_time >= notes[j].start_time + notes[j].duration
                      /\ notes[j + 1].start_time > notes[j].start_time

\* A reduction that changed the song and left a track with two notes.
C4_Witness ==
    /\ lastOp.op = "remove_polyphony"
    /\ ret.err = "none"
    /\ reps = 1
    /\ acted
    /\ \E i \in 1..Len(song.tracks) : Len(song.tracks[i].notes) >= 2


(***************************************************************************)
(* Claims about the beat timeline and the measure populator, under          *)
(* SpecMeasures.                                                            *)
(***************************************************************************)
\* The notes and rests of a measure, in the order the measure lists them.
NotesAndRests(measure) ==
    SelectSeq(measure, LAMBDA e : e.type = "Note" \/ e.type = "Rest")

\* events start at start, each begins where the previous one ends, and the
\* last one ends at end.
Fills(events, start, end) ==
    /\ events # <<>>
    /\ events[1].start_time = start
    /\ \A i \in 1..(Len(events) - 1) :
           events[i + 1].start_time = events[i].start_time + events[i].duration
    /\ events[Len(events)].start_time + events[Len(events)].duration = end

\* The measure boundaries populate_measures works with: the measure starts of
\* the song it was given and the extrapolated final boundary.
MeasureBoundaries(s) ==
    LET ms == ChirpSong_measure_starts(s).val
    IN  Append(ms, 2 * ms[Len(ms)] - ms[Len(ms) - 1])

PopulatedQuantizedMonophonic ==
    /\ ret.fn = "populate_measures"
    /\ ret.err = "none"
    /\ ChirpTrack_is_quantized(pre.tracks[ret.track])
    /\ ~ChirpTrack_is_polyphonic(pre.tracks[ret.track])

\* C5: for a quantized, monophonic track, in every measure returned by
\* populate_measures the notes and rests, taken in order, start at the
\* measure's start tick, each begins where the previous one ends, and the last
\* one ends at the measure's end tick.
C5_MeasuresFilled ==
    PopulatedQuantizedMonophonic =>
        LET b == MeasureBoundaries(pre)
        IN  \A m \in DOMAIN ret.val :
                Fills(NotesAndRests(ret.val[m]), b[m], b[m + 1])

\* C6: get_measures returns one measure list per track, all of the same
\* length, and the last measure of at least one track contains a Note.
C6_SameLengthTrimmed ==
    (ret.fn = "get_measures" /\ ret.err = "none") =>
        /\ Len(ret.val) = Len(pre.tracks)
        /\ \A i, j \in DOMAIN ret.val : Len(ret.val[i]) = Len(ret.val[j])
        /\ \E i \in DOMAIN ret.val :
               /\ ret.val[i] # <<>>
               /\ count_notes(ret.val[i][Len(ret.val[i])]) > 0

\* measures_and_beats was called on a song of ppq 960 whose only time
\* signature is (0, 4, 4) and whose last note ends at tick 3840.
FourFourTo3840 ==
    /\ ret.fn = "measures_and_beats"
    /\ pre.ppq = 960
    /\ pre.time_signature_changes = <<TimeSignature(0, 4, 4)>>
    /\ ChirpSong_end_time(pre) = Ok(3840)

\* Beat numbers cycle 1,2,3,4 and the measure number goes up after every
\* fourth beat.
BeatsCycle(beats) ==
    \A i \in DOMAIN beats :
        /\ beats[i].beat = ((i - 1) % 4) + 1
        /\ beats[i].measure = ((i - 1) \div 4) + 1

\* C10 as stated: for the single time signature (0, 4, 4), ppq 960 and end
\* tick 3840, measures_and_beats yields exactly 16 beats, with beat numbers
\* cycling 1,2,3,4 and the measure number incrementing every fourth beat.
C10_SixteenBeats ==
    FourFourTo3840 =>
        /\ ret.err = "none"
        /\ Len(ret.val) = 16
        /\ BeatsCycle(ret.val)

\* C10 amended: for the single time signature (0, 4, 4), ppq 960 and end tick
\* 3840, measures_and_beats yields exactly 5 beats, one every 960 ticks from 0
\* to 3840 inclusive, with beat numbers 1,2,3,4,1 and measure numbers
\* 1,1,1,1,2.
C10_FiveBeats ==
    FourFourTo3840 =>
        /\ ret.err = "none"
        /\ Len(ret.val) = 5
        /\ \A i \in DOMAIN ret.val : ret.val[i].start_time = 960 * (i - 1)
        /\ BeatsCycle(ret.val)

C10_Witness ==
    /\ FourFourTo3840
    /\ ret.err = "none"
    /\ ret.val[Len(ret.val)] = Beat(3840, 2, 1)

\* The song measures_and_beats or get_measure_beat was called on has no time
\* signature at all, or its first one does not start at tick 0.
BeatsWithoutStartingSignature ==
    /\ ret.fn \in {"measures_and_beats", "get_measure_beat"}
    /\ \/ pre.time_signature_changes = <<>>
       \/ pre.time_signature_changes[1].start_time # 0

\* C11 as stated: a song whose time-signature list is empty or whose first time
\* signature does not start at tick 0 makes measures_and_beats and
\* get_measure_beat fail with a quantization error.
C11_QuantizationError ==
    BeatsWithoutStartingSignature => ret.err = "ChiptuneSAKQuantizationError"

\* C11 amended: such a song makes measures_and_beats and get_measure_beat fail,
\* and no beat list is returned: with a ChiptuneSAKValueError when the song
\* has a note, and with the ValueError of the maximum of no note ends when it
\* has none.
C11_ValueError ==
    BeatsWithoutStartingSignature =>
        ret.err = IF AllNotes(pre.tracks, 1) = <<>> THEN "ValueError"
                  ELSE "ChiptuneSAKValueError"

C11_Witness ==
    /\ BeatsWithoutStartingSignature
    /\ ret.fn = "measures_and_beats"
    /\ pre.time_signature_changes # <<>>
    /\ ret.err = "ChiptuneSAKValueError"

\* C12: for every tick t >= 0, get_measure_beat(song, t) returns the Beat of
\* the beat list with the greatest start tick <= t: its start tick is <= t and
\* t is less than the start tick of the next Beat in the list, if any.
C12_GreatestBeatAtOrBefore ==
    (ret.fn = "get_measure_beat" /\ ret.err = "none") =>
        LET beats == ChirpSong_measures_and_beats(pre).val
            t == args.time_in_ticks
        IN  \E i \in DOMAIN beats :
                /\ ret.val = beats[i]
                /\ beats[i].start_time <= t
                /\ i < Len(beats) => t < beats[i + 1].start_time

\* The tick is the start of a beat that is neither the first nor the last.
C12_Witness ==
    /\ ret.fn = "get_measure_beat"
    /\ ret.err = "none"
    /\ ret.val.start_time = args.time_in_ticks
    /\ ret.val.start_time > 0
    /\ ChirpSong_end_time(pre).val > args.time_in_ticks

\* The last two calls were modulate(3, 2) and then modulate(2, 3), with no
\* other call in between; args.origin is the song before the first of them.
ModulatedThereAndBack ==
    /\ lastOp.op = "modulate"
    /\ args.previous = <<3, 2>>
    /\ args.num = 2
    /\ args.denom = 3
    /\ ret.err = "none"

\* The tick v of the original song, when even, is the tick w of the song now.
RestoredIfEven(v, w) == (v % 2 = 0) => (w = v)

\* The start ticks of the events of the list before are restored in now.
EventsRestored(before, now) ==
    \A i \in DOMAIN before : RestoredIfEven(before[i].start_time, now[i].start_time)

\* C13: modulate(song, 3, 2) followed by modulate(song, 2, 3) restores every
\* tick-valued field (note starts and durations, meta-event ticks, stored
\* quantization grids) whose original value was an exact multiple of 2.
C13_ThereAndBackRestoresEven ==
    ModulatedThereAndBack =>
        LET o == args.origin
        IN  /\ \A i \in DOMAIN o.tracks :
                  /\ \A j \in DOMAIN o.tracks[i].notes :
                        /\ RestoredIfEven(o.tracks[i].notes[j].start_time,
                                          song.tracks[i].notes[j].start_time)
                        /\ RestoredIfEven(o.tracks[i].notes[j].duration,
                                          song.tracks[i].notes[j].duration)
                  /\ EventsRestored(o.tracks[i].other, song.tracks[i].other)
            /\ EventsRestored(o.other, song.other)
            /\ EventsRestored(o.tempo_changes, song.tempo_changes)
            /\ EventsRestored(o.time_signature_changes, song.time_signature_changes)
            /\ EventsRestored(o.key_signature_changes, song.key_signature_changes)
            /\ RestoredIfEven(o.qticks_notes, song.qticks_notes)
            /\ RestoredIfEven(o.qticks_durations, song.qticks_durations)

\* The start ticks of the events of the list before, rescaled, are those of now.
EventsRescaled(before, now, num, denom) ==
    \A i \in DOMAIN before : now[i].start_time = (before[i].start_time * num) \div denom

\* C14: modulate(song, num, denom) replaces every tick-valued field v by
\* (v * num) // denom: note starts and durations, track-level and song-level
\* other-event ticks, tempo-event ticks, time-signature and key-signature
\* event start ticks, and the stored quantization grids of the song.
C14_EveryTickRescaled ==
    (lastOp.op = "modulate" /\ ret.err = "none") =>
        LET num == args.num
            denom == args.denom
        IN  /\ \A i \in DOMAIN pre.tracks :
                  /\ \A j \in DOMAIN pre.tracks[i].notes :
                        /\ song.tracks[i].notes[j].start_time =
                               (pre.tracks[i].notes[j].start_time * num) \div denom
                        /\ song.tracks[i].notes[j].duration =
                               (pre.tracks[i].notes[j].duration * num) \div denom
                  /\ EventsRescaled(pre.tracks[i].other, song.tracks[i].other, num, denom)
            /\ EventsRescaled(pre.other, song.other, num, denom)
            /\ EventsRescaled(pre.tempo_changes, song.tempo_changes, num, denom)
            /\ EventsRescaled(pre.time_signature_changes, song.time_signature_changes,
                              num, denom)
            /\ EventsRescaled(pre.key_signature_changes, song.key_signature_changes,
                              num, denom)
            /\ song.qticks_notes = (pre.qticks_notes * num) \div denom
            /\ song.qticks_durations = (pre.qticks_durations * num) \div denom

\* C15: modulate(3, 2) turns a 4/4 time signature into 12/8, and a following
\* modulate(2, 3) turns it back into 4/4.
C15_FourFourRestored ==
    (/\ ModulatedThereAndBack
     /\ args.origin.time_signature_changes[1] = TimeSignature(0, 4, 4)) =>
        /\ pre.time_signature_changes[1] = TimeSignature(0, 12, 8)
        /\ song.time_signature_changes[1] = TimeSignature(0, 4, 4)

\* C16: estimate_quantization(song) is a read-only analysis: every call
\* returns (note_grid, duration_grid) and leaves every field of the song and of
\* its tracks unchanged, the stored quantization grids included.
C16_EstimateReadOnly ==
    [][lastOp'.op = "estimate_quantization" =>
          /\ ret'.err = "none"
          /\ ret'.val[1] > 0
          /\ ret'.val[2] > 0
          /\ song' = song]_vars

\* The start ticks of all the notes of the song s.
NoteStarts(s) ==
    LET notes == AllNotes(s.tracks, 1) IN [i \in DOMAIN notes |-> notes[i].start_time]

\* C17 as stated: when quantize is called with the note grid omitted, the
\* grid is obtained by auto-discovery from the song's notes, not taken from the
\* grid stored on the song.
C17_OmittedGridDiscovered ==
    [][(lastOp'.op = "quantize" /\ lastOp'.qticks_notes = 0) =>
          song'.qticks_notes = find_quantization(NoteStarts(song), song.ppq)]_vars

\* The notes of the track now are those of the track before, moved onto
\* multiples of the grids qn and qd.
OnGrids(before, now, qn, qd) ==
    /\ now.qticks_notes = qn
    /\ now.qticks_durations = qd
    /\ Len(now.notes) = Len(before.notes)
    /\ \A j \in DOMAIN now.notes :
          /\ now.notes[j].start_time % qn = 0
          /\ now.notes[j].duration % qd = 0
          /\ 2 * Abs(now.notes[j].start_time - before.notes[j].start_time) <= qn

\* C17 amended: when quantize is called with a grid omitted, the grid is the
\* one stored on the song (the ppq of the song as constructed, or the grid of
\* an earlier quantize): the stored grid stays as it is, every track takes it
\* over and every note is moved onto its multiples; a grid that is given
\* replaces the stored one.
C17_OmittedGridStored ==
    [][lastOp'.op = "quantize" =>
          LET qn == IF lastOp'.qticks_notes = 0 THEN song.qticks_notes
                    ELSE lastOp'.qticks_notes
              qd == IF lastOp'.qticks_durations = 0 THEN song.qticks_durations
                    ELSE lastOp'.qticks_durations
          IN  /\ song'.qticks_notes = qn
              /\ song'.qticks_durations = qd
              /\ \A i \in DOMAIN song.tracks :
                    OnGrids(song.tracks[i], song'.tracks[i], qn, qd)]_vars

\* quantize() with both grids omitted has changed a note of a song whose stored
\* note grid is the 2 of an earlier quantize, which is not the grid
\* auto-discovery finds for the notes.
C17_Witness ==
    /\ lastOp = [op |-> "quantize", qticks_notes |-> 0, qticks_durations |-> 0]
    /\ reps = 1
    /\ acted
    /\ song.qticks_notes = 2
    /\ find_quantization(NoteStarts(song), song.ppq) # 2

\* The notes of the sequence notes that start at tick st.
StartingAt(notes, st) == {notes[k] : k \in {k \in DOMAIN notes : notes[k].start_time = st}}

\* C18: when several notes of a track start at the same tick, remove_polyphony
\* retains the note with the highest pitch among them and drops the others,
\* for every time-ascending input order of the track's notes.
C18_HighestPitchRetained ==
    [][(lastOp'.op = "remove_polyphony" /\ ret'.err = "none") =>
          \A i \in DOMAIN song.tracks :
              \A j \in DOMAIN song.tracks[i].notes :
                  LET st == song.tracks[i].notes[j].start_time
                      chord == StartingAt(song.tracks[i].notes, st)
                      kept == StartingAt(song'.tracks[i].notes, st)
                  IN  Cardinality(chord) > 1 =>
                          /\ Cardinality(kept) = 1
                          /\ \A n \in kept :
                                n.note_num = SetMax({c.note_num : c \in chord})]_vars

\* C19: starting from a song whose tracks hold time-ascending notes with
\* positive durations, after any sequence of quantize, remove_polyphony and
\* modulate operations every track's notes are still in time-ascending order
\* and every note duration is > 0.
C19_AscendingAndPositive ==
    \A i \in DOMAIN song.tracks :
        /\ Ascending(song.tracks[i].notes)
        /\ \A j \in DOMAIN song.tracks[i].notes : song.tracks[i].notes[j].duration > 0

\* C20: note-name conversion round-trips: for every MIDI note number n in
\* 0..127 and every octave offset in {-1, 0, 1},
\* note_name_to_pitch(pitch_to_note_name(n, offset), offset) = n, with
\* pitch_to_note_name(67, 0) = 'G4' and note_name_to_pitch('C4') = 60.
C20_NoteNameRoundTrip ==
    /\ (args.fn = "pitch_to_note_name" /\ args.note_num \in 0..127) =>
          /\ ret.fn = "pitch_to_note_name" =>
                /\ ret.err = "none"
                /\ (args.note_num = 67 /\ args.octave_offset = 0) => ret.val = <<"G", "4">>
          /\ ret.fn = "note_name_to_pitch" =>
                /\ ret.err = "none"
                /\ ret.val = args.note_num
    /\ (/\ args.fn = "note_name_to_pitch"
        /\ args.note_name = <<"C", "4">>
        /\ args.octave_offset = 0
        /\ ret.fn = "note_name_to_pitch") => (ret.err = "none" /\ ret.val = 60)

\* The candidates at which the reference walk of C21 stops: an exact fit, or an
\* error strictly greater than that of the candidate before.
ReferenceStops ==
    {i \in 1..NumCandidates :
        \/ CandidateError(i) = 0
        \/ i > 1 /\ CandidateError(i) > CandidateError(i - 1)}

C22_TripletPreferred ==
    (/\ ret.fn = "find_duration_quantization"
     /\ \A d \in DurationSet : d > 0
     /\ args.qticks_note >= 2
     /\ 10 * SetMin(DurationSet) < 9 * args.qticks_note
     /\ 10 * SetMin(DurationSet) > 9 * ((args.qticks_note * 2) \div 3)
     /\ 10 * SetMin(DurationSet) > 9 * (args.qticks_note \div 2)) =>
        /\ ret.err = "none"
        /\ ret.val = (args.qticks_note * 2) \div 3

\* The change of the list that is active at tick t: the one with the greatest
\* start tick <= t.
ActiveAt(changes, t) ==
    LET started == {i \in DOMAIN changes : changes[i].start_time <= t}
    IN  changes[CHOOSE i \in started :
                    \A j \in started : changes[j].start_time <= changes[i].start_time]

\* C23: for every song whose time-signature list starts at tick 0, with later
\* changes on a measure boundary or not, every Beat emitted by
\* measures_and_beats has measure >= 1 and 1 <= beat <= the numerator of the
\* time signature active at that beat; the measure number never decreases and
\* increases by exactly 1 exactly at the beats numbered 1 (after the first).
C23_BeatsWithinNumerator ==
    (ret.fn = "measures_and_beats" /\ ret.err = "none") =>
        \A i \in DOMAIN ret.val :
            /\ ret.val[i].measure >= 1
            /\ ret.val[i].beat >= 1
            /\ ret.val[i].beat <=
                   ActiveAt(pre.time_signature_changes, ret.val[i].start_time).num
            /\ i > 1 => ret.val[i].measure =
                            ret.val[i - 1].measure + (IF ret.val[i].beat = 1 THEN 1 ELSE 0)

\* C24: populate_measures / get_measures leave the source song and track
\* unchanged: after the call every note of the track has the same start tick,
\* duration and tied flag as before.
C24_SourceUnchanged ==
    (ret.fn \in {"populate_measures", "get_measures"} /\ ret.err = "none") =>
        \A i \in DOMAIN pre.tracks :
            /\ Len(song.tracks[i].notes) = Len(pre.tracks[i].notes)
            /\ \A j \in DOMAIN pre.tracks[i].notes :
                  /\ song.tracks[i].notes[j].start_time = pre.tracks[i].notes[j].start_time
                  /\ song.tracks[i].notes[j].duration = pre.tracks[i].notes[j].duration
                  /\ song.tracks[i].notes[j].tied = pre.tracks[i].notes[j].tied

\* The notes of the measures of the list measures, measure after measure.
RECURSIVE MeasureNotes(_, _)
MeasureNotes(measures, m) ==
    IF m > Len(measures) THEN <<>>
    ELSE SelectSeq(measures[m], LAMBDA e : e.type = "Note")
            \o MeasureNotes(measures, m + 1)

\* The sum of the durations of the notes of the sequence.
RECURSIVE TotalDuration(_)
TotalDuration(notes) ==
    IF notes = <<>> THEN 0 ELSE Head(notes).duration + TotalDuration(Tail(notes))

\* populate_measures has returned for a track whose only note crosses a
\* measure boundary (the extrapolated final boundary included).
PopulatedOneCrossingNote ==
    /\ ret.fn = "populate_measures"
    /\ ret.err = "none"
    /\ Len(pre.tracks[ret.track].notes) = 1
    /\ LET n == pre.tracks[ret.track].notes[1]
           b == MeasureBoundaries(pre)
       IN  \E m \in 2..Len(b) :
               n.start_time < b[m] /\ b[m] < n.start_time + n.duration

\* C25: a note that crosses one or more measure boundaries is emitted as
\* consecutive fragments, one per measure it sounds in, all with the note's
\* pitch: every fragment except the last is marked tied and ends at its
\* measure's end, the last fragment is not newly tied, and the fragment
\* durations sum to the note's original duration.
C25_FragmentsCoverNote ==
    PopulatedOneCrossingNote =>
        LET n == pre.tracks[ret.track].notes[1]
            b == MeasureBoundaries(pre)
            fragments == MeasureNotes(ret.val, 1)
        IN  /\ \A m \in DOMAIN ret.val :
                  count_notes(ret.val[m]) =
                      IF b[m + 1] > n.start_time /\ b[m] < n.start_time + n.duration
                      THEN 1 ELSE 0
            /\ \A k \in DOMAIN fragments :
                  /\ fragments[k].note_num = n.note_num
                  /\ fragments[k].tied = (IF k < Len(fragments) THEN TRUE ELSE n.tied)
                  /\ k < Len(fragments) =>
                        \E m \in 2..Len(b) :
                            fragments[k].start_time + fragments[k].duration = b[m]
                  /\ k > 1 => fragments[k].start_time =
                                 fragments[k - 1].start_time + fragments[k - 1].duration
            /\ TotalDuration(fragments) = n.duration

\* The rank of an element of a measure in the priority order of C26.
KindRank(e) ==
    CASE e.type = "MeasureMarker" -> 0
      [] e.type = "TimeSignature" -> 1
      [] e.type = "KeySignature" -> 2
      [] e.type = "Tempo" -> 3
      [] e.type = "Program" -> 4
      [] e.type = "OtherMidi" -> 5
      [] OTHER -> 6

C27_ActiveSignature ==
    /\ (ret.fn = "get_time_signature" /\ pre.time_signature_changes # <<>>
          /\ pre.time_signature_changes[1].start_time = 0) =>
            /\ ret.err = "none"
            /\ ret.val = ActiveAt(pre.time_signature_changes, args.time_in_ticks)
    /\ (ret.fn = "get_key_signature" /\ pre.key_signature_changes # <<>>
          /\ pre.key_signature_changes[1].start_time = 0) =>
            /\ ret.err = "none"
            /\ ret.val = ActiveAt(pre.key_signature_changes, args.time_in_ticks)

\* The note values a decomposition returned: decompose_duration returns them,
\* make_ml64_notes writes each as its ML64 code.
ReturnedDurations ==
    IF ret.fn = "decompose_duration" THEN ret.val
    ELSE [i \in 1..Len(ret.val) |->
             CHOOSE f \in DOMAIN ml64_durations : ml64_durations[f] = ret.val[i][2]]

RECURSIVE SumScaledTicks(_, _, _)
SumScaledTicks(durs, ppq, scale) ==
    IF durs = <<>> THEN 0
    ELSE ScaledTicks(Head(durs), ppq, scale) + SumScaledTicks(Tail(durs), ppq, scale)

\* C28: decompose_duration and make_ml64_notes always terminate: for a
\* duration that is a positive multiple of the smallest allowed value in
\* ticks they return values in non-increasing order whose tick lengths sum
\* to the duration, and for any other positive duration they raise a value
\* error instead of looping.
C28_DecompositionTerminates ==
    (ret.fn \in {"decompose_duration", "make_ml64_notes"} /\ args.duration > 0) =>
        LET scale == CommonDenominator(DOMAIN ml64_durations)
            smallest == ScaledTicks(FractionMin(DOMAIN ml64_durations), args.ppq, scale)
        IN  IF (args.duration * scale) % smallest = 0
            THEN /\ ret.err = "none"
                 /\ \A i \in 1..(Len(ReturnedDurations) - 1) :
                        ~FractionLess(ReturnedDurations[i], ReturnedDurations[i + 1])
                 /\ SumScaledTicks(ReturnedDurations, args.ppq, scale)
                        = args.duration * scale
            ELSE ret.err = "ChiptuneSAKValueError"

\* C29: for every song with a time signature at tick 0, whatever its
\* denominators and whatever the number of tracks, measures_and_beats and
\* get_measures terminate: the beat tick strictly increases from one beat to
\* the next, and trimming the trailing measures stops.
C29_BeatsAndTrimmingTerminate ==
    (/\ ret.fn \in {"measures_and_beats", "get_measures"}
     /\ pre.time_signature_changes # <<>>
     /\ pre.time_signature_changes[1].start_time = 0) =>
        /\ ret.err # "NonTermination"
        /\ (ret.fn = "measures_and_beats" /\ ret.err = "none") =>
               \A i \in 2..Len(ret.val) :
                   ret.val[i - 1].start_time < ret.val[i].start_time

\* C30: for every song whose measure starts can be computed, populate_measures
\* succeeds, also when there is only one measure start; the window of the last
\* measure, up to the synthetic final boundary, has the length of a measure
\* of the time signature active in it; and every note of the track ends at or
\* before the synthetic boundary.
C30_FinalBoundaryClosesSong ==
    (ret.fn = "populate_measures" /\ ChirpSong_measure_starts(pre).err = "none") =>
        LET starts == ChirpSong_measure_starts(pre).val
            n == Len(starts)
            last == ActiveAt(pre.time_signature_changes, starts[n])
        IN  /\ ret.err = "none"
            /\ n >= 2 =>
                  /\ SyntheticBoundary(starts) - starts[n]
                        = last.num * ((pre.ppq * 4) \div last.denom)
                  /\ \A i \in DOMAIN pre.tracks[ret.track].notes :
                        pre.tracks[ret.track].notes[i].start_time
                          + pre.tracks[ret.track].notes[i].duration
                            <= SyntheticBoundary(starts)

====
